---- MODULE Spec2Model ----
(***************************************************************************)
(* A model of hilltoppy/web_service.py: the Hilltop web-service client.    *)
(*                                                                         *)
(* One public operation is called per behaviour.  The server's answer to   *)
(* each round trip is drawn from a bounded set of parsed XML trees; the    *)
(* operation's outcome is a record                                         *)
(*     [kind, extracted, ...]                                              *)
(* whose kind is "raise", "list", "table", "pair" or "url", and whose      *)
(* field extracted says whether the code walked the response beyond its    *)
(* Error test.  A table is the sequence of its rows in DataFrame order.    *)
(***************************************************************************)
EXTENDS Integers, Sequences, FiniteSets, TLC

VARIABLES
    op,          \* the public operation called
    args,        \* its arguments
    resp,        \* the parsed response of the (latest) round trip
    pc,          \* position of the call
    result,      \* what the call returned or raised
    clock,       \* the wall clock pd.Timestamp.today() reads
    sites,       \* measurement_list_all: the site list
    mtype_list,  \* measurement_list_all: the per-site tables gathered so far
    requests,    \* the round trips issued so far, in order
    bad_sites    \* measurement_list: the bad table of line 206

vars == <<op, args, resp, pc, result, clock, sites, mtype_list, requests, bad_sites>>

None == "<None>"

NoResult == [kind |-> "none", extracted |-> FALSE]

Raise(err, ext) == [kind |-> "raise", error |-> err, extracted |-> ext]

RECURSIVE SeqsUpTo(_, _)
\* All sequences over S of length at most n.
SeqsUpTo(S, n) ==
    IF n = 0 THEN {<<>>}
    ELSE LET shorter == SeqsUpTo(S, n - 1)
         IN  shorter \cup {Append(s, x) : s \in {t \in shorter : Len(t) = n - 1}, x \in S}

Range(s) == {s[i] : i \in DOMAIN s}

(***************************************************************************)
(* Text conversions.                                                       *)
(***************************************************************************)

\* str.encode('ascii', 'ignore').decode(): non-ASCII characters are dropped.
\* "<deg>" and "<micro>" stand for one non-ASCII character each.
AsciiIgnore(s) ==
    CASE s = "pH<deg>"   -> "pH"
      [] s = "<micro>g"  -> "g"
      [] OTHER           -> s

\* requests.utils.quote: percent-encoding.
Quote(s) ==
    CASE s = "WQ Sample" -> "WQ%20Sample"
      [] s = "Site A"    -> "Site%20A"
      [] s = "1 day"     -> "1%20day"
      [] OTHER           -> s

NaT == -1

\* pd.to_datetime(text, errors='coerce') on the timestamps of the model,
\* as a point of an integer time line; text that is no date gives NaT.
ToDatetime(s) ==
    CASE s = "1850-06-01" -> 0
      [] s = "1900-01-01" -> 1
      [] s = "2000-01-01" -> 2
      [] s = "2020-01-01" -> 3
      [] s = "2020-01-02" -> 4
      [] s = "2020-01-03" -> 5
      [] s = "2099-01-01" -> 9
      [] OTHER            -> NaT

(***************************************************************************)
(* build_url                                                               *)
(***************************************************************************)

available_requests == {"SiteList", "MeasurementList", "GetData"}

Param(k, v) == [key |-> k, val |-> v]

\* The query of build_url, as the sequence of its parameters in the order
\* the code appends them; a value is the sequence of its parts.
BuildQuerySwapped(a) ==
    <<Param("Service", <<"Hilltop">>), Param("Request", <<a.request>>)>>
    \o (IF a.site # None THEN <<Param("Site", <<Quote(a.site)>>)>> ELSE <<>>)
    \o (IF a.measurement # None
        THEN <<Param("Measurement", <<Quote(a.measurement)>>)>> ELSE <<>>)
    \o (IF a.site_parameters # None
        THEN <<Param("SiteParameters",
                     [i \in DOMAIN a.site_parameters |-> Quote(a.site_parameters[i])])>>
        ELSE <<>>)
    \o (IF a.location /\ a.request = "SiteList"
        THEN <<Param("Location", <<"Yes">>)>> ELSE <<>>)
    \o (IF a.request = "GetData"
        THEN <<Param("TimeInterval",
                     << IF a.from_date # None THEN a.from_date ELSE "1800-01-01",
                        IF a.to_date # None THEN a.to_date ELSE "now" >>)>>
             \o (IF a.agg_method # None
                 THEN <<Param("Method", <<Quote(a.agg_method)>>)>> ELSE <<>>)
             \o (IF a.agg_interval # None
                 THEN <<Param("Interval", <<Quote(a.agg_interval)>>)>> ELSE <<>>)
             \o (IF a.alignment # None
                 THEN <<Param("Alignment", <<a.alignment>>)>> ELSE <<>>)
        ELSE <<>>)

BuildQuery(a) ==
    <<Param("Service", <<"Hilltop">>), Param("Request", <<a.request>>)>>
    \o (IF a.site # None THEN <<Param("Site", <<Quote(a.site)>>)>> ELSE <<>>)
    \o (IF a.measurement # None
        THEN <<Param("Measurement", <<Quote(a.measurement)>>)>> ELSE <<>>)
    \o (IF a.site_parameters # None
        THEN <<Param("SiteParameters",
                     [i \in DOMAIN a.site_parameters |-> Quote(a.site_parameters[i])])>>
        ELSE <<>>)
    \o (IF a.location /\ a.request = "SiteList"
        THEN <<Param("Location", <<"Yes">>)>> ELSE <<>>)
    \o (IF a.request = "GetData"
        THEN (IF a.agg_method # None
              THEN <<Param("Method", <<Quote(a.agg_method)>>)>> ELSE <<>>)
             \o (IF a.agg_interval # None
                 THEN <<Param("Interval", <<Quote(a.agg_interval)>>)>> ELSE <<>>)
             \o <<Param("TimeInterval",
                        << IF a.from_date # None THEN a.from_date ELSE "1800-01-01",
                           IF a.to_date # None THEN a.to_date ELSE "now" >>)>>
             \o (IF a.alignment # None
                 THEN <<Param("Alignment", <<a.alignment>>)>> ELSE <<>>)
        ELSE <<>>)

\* str.endswith on the texts of the model.
EndsWithSlash(s) == s = "http://host/"

EndsWithHts(s) == s = "data.hts"

build_url(a) ==
    IF ~EndsWithHts(a.hts) THEN Raise("ValueError", FALSE)
    ELSE IF a.request \notin available_requests THEN Raise("ValueError", FALSE)
    ELSE [kind |-> "url", extracted |-> FALSE,
          base |-> IF EndsWithSlash(a.base_url) THEN a.base_url ELSE "http://host/",
          hts |-> a.hts,
          query |-> BuildQuery(a)]

(***************************************************************************)
(* Parsed responses.  A tree is the root element of the XML document:      *)
(*   Error        whether the root has an Error child                      *)
(*   Site         the Name attributes of its Site children                 *)
(*   DataSource   its DataSource children                                  *)
(*   Measurement  its Measurement children                                 *)
(* An absent child of a DataSource is None; texts are never empty.         *)
(***************************************************************************)

Tree(e, s, d, m) == [Error |-> e, Site |-> s, DataSource |-> d, Measurement |-> m]

Table(rows, index) == [rows |-> rows, index |-> index]

\* pd.DataFrame()
EmptyDataFrame == Table(<<>>, <<>>)

ReturnTable(t) == [kind |-> "table", extracted |-> TRUE, table |-> t]

ReturnPair(t1, t2) == [kind |-> "pair", extracted |-> TRUE, first |-> t1, second |-> t2]

RECURSIVE Flatten(_)
\* The concatenation of a sequence of sequences.
Flatten(ss) == IF ss = <<>> THEN <<>> ELSE Head(ss) \o Flatten(Tail(ss))

(***************************************************************************)
(* site_list                                                               *)
(***************************************************************************)

\* Lines 124-127: no Error test; the Site children are read at once.
site_list(tree1) == [kind |-> "list", extracted |-> TRUE, list |-> tree1.Site]

(***************************************************************************)
(* measurement_list                                                        *)
(***************************************************************************)

Epoch1900 == 1

\* Lines 183-186: a DataSource is skipped when it has a TSType other than
\* StdSeries.
Kept(d) == d.TSType = None \/ d.TSType = "StdSeries"

\* Lines 187-192: one dict per Measurement child of a kept DataSource.
DsRows(d) ==
    IF ~Kept(d) THEN <<>>
    ELSE [j \in DOMAIN d.Measurement |->
             [Measurement |-> AsciiIgnore(d.Measurement[j].RequestAs),
              Units |-> AsciiIgnore(d.Measurement[j].Units),
              From |-> d.From,
              To |-> d.To]]

DataList(data_sources) ==
    Flatten([i \in DOMAIN data_sources |-> DsRows(data_sources[i])])

\* A DataFrame built from dicts has a column when some dict has the key.
HasColumn(data_list, c) ==
    \E i \in DOMAIN data_list :
        IF c = "From" THEN data_list[i].From # None ELSE data_list[i].To # None

\* Lines 194-203: the frame of the rows, under its default RangeIndex (idx);
\* a key a dict lacks is NaN, which to_datetime turns into NaT.
MtypeDf(data_list, site) ==
    [i \in DOMAIN data_list |->
        [idx |-> i,
         Site |-> site,
         Measurement |-> data_list[i].Measurement,
         Units |-> IF data_list[i].Units = "%" THEN None ELSE data_list[i].Units,
         From |-> IF data_list[i].From = None THEN NaT ELSE ToDatetime(data_list[i].From),
         To |-> IF data_list[i].To = None THEN NaT ELSE ToDatetime(data_list[i].To)]]

\* The mask of lines 206 and 213; a comparison with NaT is False.
BadTimes(row, today) ==
    \/ row.From = NaT
    \/ row.To = NaT
    \/ (row.From # NaT /\ row.From < Epoch1900)
    \/ (row.To # NaT /\ row.To > today)

Good(row, today) == ~BadTimes(row, today)

SelectBad(df, today) == SelectSeq(df, LAMBDA r : BadTimes(r, today))

SelectGood(df, today) == SelectSeq(df, LAMBDA r : Good(r, today))

CatalogIndex == <<"Site", "Measurement">>

\* Lines 159-177: the outcome when the call returns before the rows are
\* extracted, and NoResult when it goes on.
measurement_list_early(tree1, output_bad_sites) ==
    IF tree1.Error THEN Raise("ValueError", FALSE)
    ELSE IF tree1.DataSource = <<>> THEN ReturnTable(EmptyDataFrame)
    ELSE IF Len(tree1.DataSource) = 1 /\ tree1.DataSource[1].Name = "WQ Sample"
    THEN IF output_bad_sites THEN ReturnPair(EmptyDataFrame, EmptyDataFrame)
         ELSE ReturnTable(EmptyDataFrame)
    ELSE NoResult

\* Lines 179-222 up to the first reading of the clock (line 206): the
\* outcome when the call returns there, and NoResult when the bad table is
\* not empty and line 213 is still to run.
measurement_list_first(tree1, site, output_bad_sites, today) ==
    LET data_list == DataList(tree1.DataSource)
        mtype_df == MtypeDf(data_list, site)
    IN  IF data_list = <<>>
        THEN IF output_bad_sites THEN ReturnPair(EmptyDataFrame, EmptyDataFrame)
             ELSE ReturnTable(EmptyDataFrame)
        ELSE IF ~output_bad_sites THEN ReturnTable(Table(mtype_df, CatalogIndex))
        ELSE IF ~HasColumn(data_list, "From") \/ ~HasColumn(data_list, "To")
        THEN Raise("KeyError", TRUE)
        ELSE IF SelectBad(mtype_df, today) = <<>>
        THEN ReturnPair(Table(mtype_df, CatalogIndex), EmptyDataFrame)
        ELSE NoResult

\* Lines 213-214: the second reading of the clock.
measurement_list_second(tree1, site, bad, today) ==
    ReturnPair(Table(SelectGood(MtypeDf(DataList(tree1.DataSource), site), today),
                     CatalogIndex),
               Table(bad, <<>>))

\* The whole call with both clock readings given (one MeasurementList
\* round trip with the clock standing still when today1 = today2).
measurement_list(tree1, site, output_bad_sites, today1, today2) ==
    LET early == measurement_list_early(tree1, output_bad_sites)
        first == measurement_list_first(tree1, site, output_bad_sites, today1)
    IN  IF early # NoResult THEN early
        ELSE IF first # NoResult THEN first
        ELSE measurement_list_second(tree1, site,
                 SelectBad(MtypeDf(DataList(tree1.DataSource), site), today1), today2)

UrlArgs ==
    [base_url : {"http://host", "http://host/"},
     hts : {"data.hts", "data.dsn"},
     request : available_requests \cup {"Collection"},
     site : {None, "Site A"},
     measurement : {None, "WQ Sample"},
     from_date : {None, "2000-01-01"},
     to_date : {None, "2020-01-01"},
     location : BOOLEAN,
     site_parameters : {None, <<"Easting", "Northing">>},
     agg_method : {None, "Average"},
     agg_interval : {None, "1 day"},
     alignment : {None, "00:00"}]

Idle ==
    /\ resp = None
    /\ clock = ToDatetime("2020-01-01")
    /\ sites = <<>>
    /\ mtype_list = <<>>
    /\ requests = <<>>
    /\ bad_sites = <<>>
    /\ result = NoResult
    /\ pc = "call"

InitUrl ==
    /\ op = "build_url"
    /\ args \in UrlArgs
    /\ Idle

BuildUrl ==
    /\ op = "build_url"
    /\ pc = "call"
    /\ result' = build_url(args)
    /\ pc' = "done"
    /\ UNCHANGED <<op, args, resp, clock, sites, mtype_list, requests, bad_sites>>

NextUrl == BuildUrl

SpecUrl == InitUrl /\ [][NextUrl]_vars

(***************************************************************************)
(* get_data.  A Measurement element is [DataType, Data]; a child of Data   *)
(* is a Gap marker, which has no children, or a time point                 *)
(*   [tag |-> "E", T, V, Parameter]                                        *)
(* where V is the text of its Value (WQData) or I1 (time series) child and *)
(* Parameter the (Name, Value) attributes of its Parameter children.       *)
(***************************************************************************)

Gap == [tag |-> "Gap"]

TimePoint(t, v, ps) == [tag |-> "E", T |-> t, V |-> v, Parameter |-> ps]

\* text[:299]
Truncate299(s) == IF s = "x300" THEN "x299" ELSE s

\* A Python dict, as the sequence of its items in insertion order.
DictKeys(d) == {d[i].key : i \in DOMAIN d}

\* d[k] = v, or d.update({k: v}): a key already there keeps its place and
\* takes the new value.
DictSet(d, k, v) ==
    IF k \in DictKeys(d)
    THEN [i \in DOMAIN d |-> IF d[i].key = k THEN [key |-> k, value |-> v] ELSE d[i]]
    ELSE Append(d, [key |-> k, value |-> v])

RECURSIVE ParamDict(_)
\* Lines 309, 322: the dict comprehension over the Parameter children.
ParamDict(params1) ==
    IF params1 = <<>> THEN <<>>
    ELSE LET n == Len(params1)
         IN  DictSet(ParamDict(SubSeq(params1, 1, n - 1)),
                     AsciiIgnore(params1[n].Name),
                     AsciiIgnore(Truncate299(params1[n].Value)))

RECURSIVE TsDict(_)
\* Lines 303-310, 316-323: time -> parameter dict, over the time points
\* that have Parameter children.
TsDict(es1) ==
    IF es1 = <<>> THEN <<>>
    ELSE LET n == Len(es1)
             before == TsDict(SubSeq(es1, 1, n - 1))
         IN  IF es1[n].Parameter = <<>> THEN before
             ELSE DictSet(before, es1[n].T, ParamDict(es1[n].Parameter))

\* DataFrame.from_dict(d, orient='index').stack().reset_index(): one row
\* for each parameter of each key (values are texts, so stack drops only
\* the cells a time point has no parameter for); an empty dict gives an
\* empty frame of the same three columns.
Stack(d) ==
    Flatten([i \in DOMAIN d |->
                [j \in DOMAIN d[i].value |->
                    [DateTime |-> d[i].key,
                     Parameter |-> d[i].value[j].key,
                     Value |-> d[i].value[j].value]]])

HasGap(es1) == \E i \in DOMAIN es1 : es1[i].tag = "Gap"

RECURSIVE GapLoopNoToggle(_, _, _)
GapLoopNoToggle(es1, i, gap) ==
    IF i > Len(es1) THEN <<>>
    ELSE IF es1[i].tag = "Gap" THEN GapLoopNoToggle(es1, i + 1, gap + 1)
    ELSE <<[pos |-> i, DateTime |-> es1[i].T, Value |-> AsciiIgnore(es1[i].V)]>>
         \o GapLoopNoToggle(es1, i + 1, gap)

RECURSIVE GapLoop(_, _, _)
\* Lines 330-339, 342-351: the loop from child i on, gap markers counted so
\* far.  pos is the place of the child a row was read from (not a column).
GapLoop(es1, i, gap) ==
    IF i > Len(es1) THEN <<>>
    ELSE IF es1[i].tag = "Gap" THEN GapLoop(es1, i + 1, gap + 1)
    ELSE IF gap % 2 = 1 THEN GapLoop(es1, i + 1, gap)
    ELSE <<[pos |-> i, DateTime |-> es1[i].T, Value |-> AsciiIgnore(es1[i].V)]>>
         \o GapLoop(es1, i + 1, gap)

\* Lines 317-324: every child is read as a time point.
AllPoints(es1) ==
    [i \in DOMAIN es1 |-> [pos |-> i, DateTime |-> es1[i].T, Value |-> AsciiIgnore(es1[i].V)]]

IsNumeric(s) == s \in {"12", "7"}

\* float(text) on the numeric texts of the model.
ParseNumber(s) == IF s = "12" THEN 12 ELSE 7

\* pd.to_numeric(column, errors='ignore'): the column is converted when all
\* of it parses, and left as it is otherwise.
ToNumeric(rows) ==
    IF \A i \in DOMAIN rows : IsNumeric(rows[i].Value)
    THEN [i \in DOMAIN rows |-> [rows[i] EXCEPT !.Value = ParseNumber(rows[i].Value)]]
    ELSE rows

\* Lines 357-363 for the value table.
ValueTable(rows, site, measurement) ==
    Table([i \in DOMAIN rows |->
              [pos |-> rows[i].pos,
               Site |-> site,
               Measurement |-> measurement,
               DateTime |-> ToDatetime(rows[i].DateTime),
               Value |-> rows[i].Value]],
          <<"Site", "Measurement", "DateTime">>)

\* Lines 357-360 for the water-quality sample table.
SampleTable(rows, site) ==
    Table([i \in DOMAIN rows |->
              [Site |-> site,
               Parameter |-> rows[i].Parameter,
               DateTime |-> ToDatetime(rows[i].DateTime),
               Value |-> rows[i].Value]],
          <<"Site", "Parameter", "DateTime">>)

ExtraIndex == <<"Site", "Measurement", "Parameter", "DateTime">>

\* Lines 366-376: the parameter table, or its empty placeholder.
ExtraTable(tsextra_dict, site, measurement) ==
    LET rows == Stack(tsextra_dict)
    IN  Table([i \in DOMAIN rows |->
                  [Site |-> site,
                   Measurement |-> measurement,
                   Parameter |-> rows[i].Parameter,
                   DateTime |-> ToDatetime(rows[i].DateTime),
                   Value |-> rows[i].Value]],
              ExtraIndex)

get_data(tree1, site, measurement, parameters) ==
    IF tree1.Error THEN Raise("ValueError", FALSE)
    ELSE IF tree1.Measurement = <<>> THEN ReturnTable(EmptyDataFrame)
    ELSE
    LET meas1 == tree1.Measurement[1]
        datatype == meas1.DataType
        es1 == meas1.Data
    IN  IF measurement = "WQ Sample"
        THEN \* d.find('T') is None for a Gap marker (line 305)
             IF HasGap(es1) THEN Raise("AttributeError", TRUE)
             \* tsextra_dict is not bound on this path (line 366)
             ELSE IF parameters /\ datatype = "WQData" THEN Raise("NameError", TRUE)
             ELSE ReturnTable(SampleTable(Stack(TsDict(es1)), site))
        ELSE IF datatype = "WQData"
        THEN IF parameters
             THEN \* d.find('T') is None for a Gap marker (line 318)
                  IF HasGap(es1) THEN Raise("AttributeError", TRUE)
                  ELSE ReturnPair(ValueTable(AllPoints(es1), site, measurement),
                                  ExtraTable(TsDict(es1), site, measurement))
             ELSE ReturnTable(ValueTable(GapLoop(es1, 1, 0), site, measurement))
        ELSE IF datatype \in {"SimpleTimeSeries", "MeterReading"}
        THEN ReturnTable(ValueTable(ToNumeric(GapLoop(es1, 1, 0)), site, measurement))
        \* data_df is not bound for any other DataType (line 357)
        ELSE Raise("NameError", TRUE)

(***************************************************************************)
(* wq_sample_parameter_list                                                *)
(***************************************************************************)

\* Line 421: the tuple of the names of the Parameter children.
ParamTuple(params1) == [i \in DOMAIN params1 |-> AsciiIgnore(params1[i].Name)]

RECURSIVE TsTuples(_)
\* Lines 415-422: time -> names, over the time points that have Parameter
\* children (a Gap marker has none and is passed over).
TsTuples(es1) ==
    IF es1 = <<>> THEN <<>>
    ELSE LET n == Len(es1)
             before == TsTuples(SubSeq(es1, 1, n - 1))
         IN  IF es1[n].tag = "Gap" \/ es1[n].Parameter = <<>> THEN before
             ELSE DictSet(before, es1[n].T, ParamTuple(es1[n].Parameter))

\* The children that have Parameter children, in document order.
WithParams(es1) ==
    SelectSeq(es1, LAMBDA d : d.tag # "Gap" /\ d.Parameter # <<>>)

\* min and max of timestamp texts: the texts of the model are ISO dates,
\* whose order as strings is their order in time.
TextMin(S) == CHOOSE x \in S : \A y \in S : ToDatetime(x) <= ToDatetime(y)

TextMax(S) == CHOOSE x \in S : \A y \in S : ToDatetime(x) >= ToDatetime(y)

\* Lines 424-425: for the names of p_tup, the times whose tuple holds the
\* name, and their least and greatest.
MinMaxDict(p_tup, tsdata_dict) ==
    LET names == SelectSeq([i \in DOMAIN p_tup |-> [key |-> p_tup[i], at |-> i]],
                           LAMBDA e : \A j \in 1..(e.at - 1) : p_tup[j] # e.key)
        times(p) == {tsdata_dict[i].key : i \in {j \in DOMAIN tsdata_dict :
                                                   p \in Range(tsdata_dict[j].value)}}
    IN  [i \in DOMAIN names |->
            [Parameter |-> names[i].key,
             From |-> TextMin(times(names[i].key)),
             To |-> TextMax(times(names[i].key))]]

SummaryIndex == <<"Site", "Parameter">>

wq_sample_parameter_list(tree1, site) ==
    IF tree1.Error THEN Raise("ValueError", FALSE)
    ELSE IF tree1.Measurement = <<>> THEN ReturnTable(EmptyDataFrame)
    ELSE
    LET es1 == tree1.Measurement[1].Data
        withp == WithParams(es1)
    IN  \* p_tup is not bound when the loop never reached line 421
        IF withp = <<>> THEN Raise("NameError", TRUE)
        ELSE LET p_tup == ParamTuple(withp[Len(withp)].Parameter)
                 rows == MinMaxDict(p_tup, TsTuples(es1))
             IN  ReturnTable(Table([i \in DOMAIN rows |->
                                       [Site |-> site,
                                        Parameter |-> rows[i].Parameter,
                                        From |-> ToDatetime(rows[i].From),
                                        To |-> ToDatetime(rows[i].To),
                                        DataType |-> "WQSample"]],
                                   SummaryIndex))

(***************************************************************************)
(* The catalog of one site: measurement_list, with the clock running.      *)
(***************************************************************************)

MaxClock == 5

MaxDataSources == 2

Measurements == {[RequestAs |-> "Flow", Units |-> "m3/s"],
                 [RequestAs |-> "Humidity", Units |-> "%"]}

FromTexts == {None, "n/a", "1850-06-01", "2000-01-01", "2099-01-01"}

ToTexts == {None, "n/a", "2000-01-01", "2020-01-02", "2099-01-01"}

DataSourceOf(n, t, f, u, ms) ==
    [Name |-> n, TSType |-> t, From |-> f, To |-> u, Measurement |-> ms]

\* The DataSource elements of the model.  The dates and measurements of a
\* skipped DataSource, and the dates of one without measurements, are never
\* read: one representative of each stands for all.
DataSources ==
    {DataSourceOf(n, "CheckSeries", "2000-01-01", "2000-01-01", <<>>) :
        n \in {"WQ Sample", "Flow"}}
    \cup {DataSourceOf(n, t, "2000-01-01", "2000-01-01", <<>>) :
        n \in {"WQ Sample", "Flow"}, t \in {None, "StdSeries"}}
    \cup {DataSourceOf(x[1], x[2], x[3], x[4], <<x[5]>>) :
        x \in {"WQ Sample", "Flow"} \X {None, "StdSeries"} \X FromTexts \X ToTexts
              \X Measurements}

CatalogResponses ==
    {Tree(e, <<>>, d, <<>>) : e \in BOOLEAN, d \in SeqsUpTo(DataSources, MaxDataSources)}

CatalogArgs ==
    [site : {"Site A"}, measurement : {None}, output_bad_sites : BOOLEAN]

\* The url of a round trip, as the operations build it (lines 122, 157, 286,
\* 400).
UrlOf(request, site, measurement, alignment) ==
    build_url([base_url |-> "http://host/", hts |-> "data.hts", request |-> request,
               site |-> site, measurement |-> measurement,
               from_date |-> None, to_date |-> None, location |-> FALSE,
               site_parameters |-> None, agg_method |-> None,
               agg_interval |-> None, alignment |-> alignment])

InitCatalog ==
    /\ op = "measurement_list"
    /\ args \in CatalogArgs
    /\ Idle

\* Lines 157-209: the round trip and everything up to the first reading of
\* the clock.
MeasurementListCall(R) ==
    /\ op = "measurement_list"
    /\ pc = "call"
    /\ \E tree1 \in R :
        LET early == measurement_list_early(tree1, args.output_bad_sites)
            first == measurement_list_first(tree1, args.site, args.output_bad_sites, clock)
        IN  /\ resp' = tree1
            /\ requests' = Append(requests, UrlOf("MeasurementList", args.site, args.measurement, None))
            /\ IF early # NoResult
               THEN result' = early /\ pc' = "done" /\ bad_sites' = bad_sites
               ELSE IF first # NoResult
               THEN result' = first /\ pc' = "done" /\ bad_sites' = bad_sites
               ELSE /\ result' = result
                    /\ pc' = "filter"
                    /\ bad_sites' = SelectBad(MtypeDf(DataList(tree1.DataSource),
                                                      args.site), clock)
    /\ UNCHANGED <<op, args, clock, sites, mtype_list>>

\* Time passes between the two readings of the clock (lines 206 and 213);
\* the clock is read nowhere else.
Tick ==
    /\ pc = "filter"
    /\ clock < MaxClock
    /\ clock' = clock + 1
    /\ UNCHANGED <<op, args, resp, pc, result, sites, mtype_list, requests, bad_sites>>

\* Lines 211-214.
MeasurementListFilter ==
    /\ op = "measurement_list"
    /\ pc = "filter"
    /\ result' = measurement_list_second(resp, args.site, bad_sites, clock)
    /\ pc' = "done"
    /\ UNCHANGED <<op, args, resp, clock, sites, mtype_list, requests, bad_sites>>

NextCatalog ==
    \/ MeasurementListCall(CatalogResponses)
    \/ Tick
    \/ MeasurementListFilter

SpecCatalog == InitCatalog /\ [][NextCatalog]_vars

(***************************************************************************)
(* measurement_list_all (and site_list through it).                        *)
(***************************************************************************)

MaxSites == 2

SiteNames == {"Site A", "Site B"}

SiteListResponses ==
    {Tree(e, s, <<>>, <<>>) : e \in BOOLEAN, s \in SeqsUpTo(SiteNames, MaxSites)}

\* The per-site answers of the aggregation: an error, no DataSource, a
\* DataSource that is filtered out, and catalogs of one row.
SiteCatalogResponses ==
    {Tree(TRUE, <<>>, <<>>, <<>>), Tree(FALSE, <<>>, <<>>, <<>>),
     Tree(FALSE, <<>>,
          <<DataSourceOf("Flow", "CheckSeries", "2000-01-01", "2000-01-01", <<>>)>>, <<>>)}
    \cup {Tree(FALSE, <<>>, <<DataSourceOf("Flow", "StdSeries", "2000-01-01", t, <<m>>)>>,
               <<>>) : t \in {"2000-01-01", "2099-01-01"}, m \in Measurements}

\* pd.concat(objs): fails on an empty list.
concat(objs) ==
    IF objs = <<>> THEN Raise("ValueError", TRUE)
    ELSE ReturnTable(Table(Flatten([i \in DOMAIN objs |-> objs[i].rows]), CatalogIndex))

AllArgs == [base_url : {"http://host/"}, hts : {"data.hts"}]

InitAll ==
    /\ op = "measurement_list_all"
    /\ args \in AllArgs
    /\ Idle

\* Line 241: the SiteList round trip.
AllSiteList(R) ==
    /\ op = "measurement_list_all"
    /\ pc = "call"
    /\ \E tree1 \in R :
        /\ resp' = tree1
        /\ sites' = site_list(tree1).list
    /\ requests' = Append(requests, UrlOf("SiteList", None, None, None))
    /\ mtype_list' = <<>>
    /\ pc' = "loop"
    /\ UNCHANGED <<op, args, result, clock, bad_sites>>

\* Lines 244-247: one turn of the loop, the MeasurementList round trip of
\* the next site.
AllNextSite(R) ==
    /\ op = "measurement_list_all"
    /\ pc = "loop"
    /\ Len(mtype_list) < Len(sites)
    /\ LET s == sites[Len(mtype_list) + 1]
       IN  /\ requests' = Append(requests, UrlOf("MeasurementList", s, None, None))
           /\ \E tree1 \in R :
                LET m1 == measurement_list(tree1, s, FALSE, clock, clock)
                IN  /\ resp' = tree1
                    /\ IF m1.kind = "raise"
                       THEN result' = m1 /\ pc' = "done" /\ mtype_list' = mtype_list
                       ELSE /\ mtype_list' = Append(mtype_list, m1.table)
                            /\ result' = result
                            /\ pc' = pc
    /\ UNCHANGED <<op, args, clock, sites, bad_sites>>

\* Lines 248-250.
AllConcat ==
    /\ op = "measurement_list_all"
    /\ pc = "loop"
    /\ Len(mtype_list) = Len(sites)
    /\ result' = concat(mtype_list)
    /\ pc' = "done"
    /\ UNCHANGED <<op, args, resp, clock, sites, mtype_list, requests, bad_sites>>

NextAll ==
    \/ AllSiteList(SiteListResponses)
    \/ AllNextSite(SiteCatalogResponses)
    \/ AllConcat

SpecAll == InitAll /\ [][NextAll]_vars

(***************************************************************************)
(* get_data on the payload shapes.                                         *)
(***************************************************************************)

MaxData == 3

Timestamps == {"2020-01-01", "2020-01-02"}

ParameterLists ==
    {<<>>,
     <<[Name |-> "pH", Value |-> "7.1"]>>,
     <<[Name |-> "Temp", Value |-> "x300"], [Name |-> "pH<deg>", Value |-> "8"]>>}

DataChildren ==
    {Gap} \cup {TimePoint(t, v, ps) :
                    t \in Timestamps, v \in {"12", "n/a"}, ps \in ParameterLists}

DataTypes == {"WQSample", "WQData", "SimpleTimeSeries", "MeterReading"}

MeasurementOf(dt, es) == [DataType |-> dt, Data |-> es]

DataResponses ==
    {Tree(e, <<>>, <<>>, <<>>) : e \in BOOLEAN}
    \cup {Tree(FALSE, <<>>, <<>>, <<MeasurementOf(dt, es)>>) :
            dt \in DataTypes, es \in SeqsUpTo(DataChildren, MaxData)}
    \cup {Tree(TRUE, <<>>, <<>>, <<MeasurementOf(dt, es)>>) :
            dt \in DataTypes, es \in SeqsUpTo(DataChildren, 1)}

DataArgs ==
    [site : {"Site A"}, measurement : {"WQ Sample", "Flow"}, parameters : BOOLEAN]

InitData ==
    /\ op = "get_data"
    /\ args \in DataArgs
    /\ Idle

\* Lines 286-378.
GetData(R) ==
    /\ op = "get_data"
    /\ pc = "call"
    /\ \E tree1 \in R :
        /\ resp' = tree1
        /\ result' = get_data(tree1, args.site, args.measurement, args.parameters)
    /\ requests' = Append(requests, UrlOf("GetData", args.site, args.measurement, "00:00"))
    /\ pc' = "done"
    /\ UNCHANGED <<op, args, clock, sites, mtype_list, bad_sites>>

NextData == GetData(DataResponses)

SpecData == InitData /\ [][NextData]_vars

(***************************************************************************)
(* get_data on payloads with gap markers.                                  *)
(***************************************************************************)

MaxGapData == 5

GapChildren ==
    {Gap,
     TimePoint("2020-01-01", "12", <<>>),
     TimePoint("2020-01-02", "n/a", <<[Name |-> "pH", Value |-> "7.1"]>>),
     TimePoint("2020-01-03", "7", <<>>)}

GapResponses ==
    {Tree(FALSE, <<>>, <<>>, <<MeasurementOf(dt, es)>>) :
        dt \in {"WQData", "SimpleTimeSeries", "MeterReading"},
        es \in SeqsUpTo(GapChildren, MaxGapData)}

InitGaps ==
    /\ op = "get_data"
    /\ args \in [site : {"Site A"}, measurement : {"Flow"}, parameters : {FALSE}]
    /\ Idle

NextGaps == GetData(GapResponses)

SpecGaps == InitGaps /\ [][NextGaps]_vars

(***************************************************************************)
(* wq_sample_parameter_list on water-quality sample payloads.              *)
(***************************************************************************)

SampleChildren ==
    {Gap} \cup {TimePoint(t, "12", ps) : t \in Timestamps, ps \in ParameterLists}

SampleResponses ==
    {Tree(e, <<>>, <<>>, <<>>) : e \in BOOLEAN}
    \cup {Tree(e, <<>>, <<>>, <<MeasurementOf("WQSample", es)>>) :
            e \in BOOLEAN, es \in SeqsUpTo(SampleChildren, MaxData)}

InitWq ==
    /\ op = "wq_sample_parameter_list"
    /\ args \in [site : {"Site A"}]
    /\ Idle

\* Lines 400-434.
WqSampleParameterList(R) ==
    /\ op = "wq_sample_parameter_list"
    /\ pc = "call"
    /\ \E tree1 \in R :
        /\ resp' = tree1
        /\ result' = wq_sample_parameter_list(tree1, args.site)
    /\ requests' = Append(requests, UrlOf("GetData", args.site, "WQ Sample", None))
    /\ pc' = "done"
    /\ UNCHANGED <<op, args, clock, sites, mtype_list, bad_sites>>

NextWq == WqSampleParameterList(SampleResponses)

SpecWq == InitWq /\ [][NextWq]_vars

(***************************************************************************)
(* Every operation that parses a response, on answers with and without an  *)
(* Error element.                                                          *)
(***************************************************************************)

\* Lines 122-127.
SiteList(R) ==
    /\ op = "site_list"
    /\ pc = "call"
    /\ \E tree1 \in R :
        /\ resp' = tree1
        /\ result' = site_list(tree1)
    /\ requests' = Append(requests, UrlOf("SiteList", None, None, None))
    /\ pc' = "done"
    /\ UNCHANGED <<op, args, clock, sites, mtype_list, bad_sites>>

ErrorCatalogResponses ==
    {Tree(e, <<>>, d, <<>>) :
        e \in BOOLEAN,
        d \in SeqsUpTo({DataSourceOf("Flow", "StdSeries", "2000-01-01", t, <<m>>) :
                           t \in {"2000-01-01", "2020-01-02"}, m \in Measurements}, 1)}

ErrorDataResponses ==
    {Tree(e, <<>>, <<>>, <<MeasurementOf(dt, es)>>) :
        e \in BOOLEAN, dt \in {"WQSample", "WQData", "SimpleTimeSeries"},
        es \in SeqsUpTo({TimePoint("2020-01-01", "12", ps) : ps \in ParameterLists}, 1)}

InitAny ==
    /\ \/ op = "site_list" /\ args \in AllArgs
       \/ op = "measurement_list_all" /\ args \in AllArgs
       \/ op = "measurement_list" /\ args \in CatalogArgs
       \/ op = "get_data" /\ args \in DataArgs
       \/ op = "wq_sample_parameter_list"
          /\ args \in [site : {"Site A"}]
    /\ Idle

NextAny ==
    \/ SiteList(SiteListResponses)
    \/ AllSiteList(SiteListResponses)
    \/ AllNextSite(SiteCatalogResponses)
    \/ AllConcat
    \/ MeasurementListCall(ErrorCatalogResponses)
    \/ Tick
    \/ MeasurementListFilter
    \/ GetData(ErrorDataResponses)
    \/ WqSampleParameterList(ErrorDataResponses)

SpecAny == InitAny /\ [][NextAny]_vars

(***************************************************************************)
(* Properties.                                                             *)
(***************************************************************************)

Done(o) == op = o /\ pc = "done"

\* C1: every operation that parses a response fails, before any extraction,
\* when the root of the response has an Error element: once a round trip is
\* answered with an Error, the call is over, it raised, and nothing was
\* extracted (so no list or table was returned).
C1_ErrorShortCircuits ==
    (pc # "call" /\ resp.Error) =>
        (pc = "done" /\ result.kind = "raise" /\ ~result.extracted)

GapsBefore(es1, i) == Cardinality({j \in 1..(i - 1) : es1[j].tag = "Gap"})

GapShape ==
    /\ Done("get_data")
    /\ args.measurement # "WQ Sample"
    /\ ~resp.Error
    /\ resp.Measurement # <<>>
    /\ \/ resp.Measurement[1].DataType \in {"SimpleTimeSeries", "MeterReading"}
       \/ resp.Measurement[1].DataType = "WQData" /\ ~args.parameters

\* C2: gap-pair exclusion.  For the SimpleTimeSeries/MeterReading shape and
\* the WQData shape without parameters, the result is a table in which the
\* child at place i of Data has a row if and only if it is a time point and
\* the number of Gap markers before it is even; the rows are in document
\* order, one per such child, and carry the child's timestamp.
C2_GapPairExclusion ==
    GapShape =>
        LET es1 == resp.Measurement[1].Data
            rows == IF result.kind = "table" THEN result.table.rows ELSE <<>>
        IN  /\ result.kind = "table"
            /\ \A i \in DOMAIN es1 :
                  (\E k \in DOMAIN rows : rows[k].pos = i)
                      <=> (es1[i].tag # "Gap" /\ GapsBefore(es1, i) % 2 = 0)
            /\ \A k, l \in DOMAIN rows : k < l => rows[k].pos < rows[l].pos
            /\ \A k \in DOMAIN rows :
                  rows[k].DateTime = ToDatetime(es1[rows[k].pos].T)

\* C2's case: a payload with a closed gap pair and a trailing open marker,
\* with time points kept and time points excluded.
C2_Witness ==
    /\ GapShape
    /\ LET es1 == resp.Measurement[1].Data
       IN  /\ Len(es1) = 5
           /\ es1[1].tag # "Gap" /\ es1[2].tag = "Gap" /\ es1[3].tag = "Gap"
           /\ es1[4].tag = "Gap" /\ es1[5].tag # "Gap"
           /\ Len(result.table.rows) = 1

CatalogRows == MtypeDf(DataList(resp.DataSource), args.site)

Partitioned ==
    /\ Done("measurement_list")
    /\ args.output_bad_sites
    /\ result.kind = "pair"
    /\ measurement_list_early(resp, TRUE) = NoResult

\* C3: with output_bad_sites, the extracted rows are partitioned at one
\* moment of the call: the bad table holds the rows with a null From or To,
\* a From before 1900-01-01 or a To after that moment, the good table the
\* others, and every row is in exactly one of the two tables.
C3_PartitionAtOneMoment ==
    Partitioned =>
        /\ \E today \in ToDatetime("2020-01-01")..clock :
              /\ result.second.rows = SelectBad(CatalogRows, today)
              /\ result.first.rows = SelectGood(CatalogRows, today)
        /\ \A i \in DOMAIN CatalogRows :
              (CatalogRows[i] \in Range(result.first.rows))
                  # (CatalogRows[i] \in Range(result.second.rows))

\* C4: with output_bad_sites, every entry of the good table has From <= To.
C4_GoodFromBeforeTo ==
    Partitioned =>
        \A i \in DOMAIN result.first.rows :
            result.first.rows[i].From <= result.first.rows[i].To

EmptyCatalog ==
    \/ resp.DataSource = <<>>
    \/ Len(resp.DataSource) = 1 /\ resp.DataSource[1].Name = "WQ Sample"
    \/ DataList(resp.DataSource) = <<>>

\* C5: on a response without Error whose catalog is empty, measurement_list
\* returns one empty table when output_bad_sites is False and a pair of
\* empty tables when it is True.
C5_EmptyCatalogShape ==
    (Done("measurement_list") /\ ~resp.Error /\ EmptyCatalog) =>
        IF args.output_bad_sites
        THEN /\ result.kind = "pair"
             /\ result.first.rows = <<>>
             /\ result.second.rows = <<>>
        ELSE /\ result.kind = "table"
             /\ result.table.rows = <<>>

\* C6: with parameters=True, get_data returns on every response without
\* Error a pair whose first table is the table get_data returns for the
\* same response with parameters=False, and whose second table is the
\* empty placeholder when no time point carries parameters.
C6_ParametersPair ==
    (Done("get_data") /\ args.parameters /\ ~resp.Error) =>
        LET plain == get_data(resp, args.site, args.measurement, FALSE)
        IN  /\ result.kind = "pair"
            /\ plain.kind = "table"
            /\ result.first = plain.table
            /\ (\A i \in DOMAIN resp.Measurement[1].Data :
                    resp.Measurement[1].Data[i].tag = "Gap"
                    \/ resp.Measurement[1].Data[i].Parameter = <<>>)
                  => result.second = Table(<<>>, ExtraIndex)

\* The places (child, Parameter child) of the parameters a payload carries.
Carried(es1) ==
    UNION {{[i |-> i, j |-> j] : j \in DOMAIN es1[i].Parameter} :
              i \in {k \in DOMAIN es1 : es1[k].tag # "Gap"}}

NameAt(es1, c) == AsciiIgnore(es1[c.i].Parameter[c.j].Name)

Least(S) == CHOOSE x \in S : \A y \in S : x <= y

Greatest(S) == CHOOSE x \in S : \A y \in S : x >= y

\* C7: wq_sample_parameter_list returns one table with exactly one row for
\* every parameter name carried by at least one time point of the response,
\* with From the earliest and To the latest timestamp of the time points
\* carrying it; when no time point carries a parameter the table is empty
\* and nothing is raised.
C7_ParameterSummary ==
    (Done("wq_sample_parameter_list") /\ ~resp.Error /\ resp.Measurement # <<>>) =>
        LET es1 == resp.Measurement[1].Data
            names == {NameAt(es1, c) : c \in Carried(es1)}
            times(p) == {ToDatetime(es1[c.i].T) : c \in {x \in Carried(es1) : NameAt(es1, x) = p}}
            rows == IF result.kind = "table" THEN result.table.rows ELSE <<>>
        IN  /\ result.kind = "table"
            /\ {rows[k].Parameter : k \in DOMAIN rows} = names
            /\ Len(rows) = Cardinality(names)
            /\ \A k \in DOMAIN rows :
                  /\ rows[k].From = Least(times(rows[k].Parameter))
                  /\ rows[k].To = Greatest(times(rows[k].Parameter))

ParamOrder ==
    <<"Service", "Request", "Site", "Measurement", "SiteParameters", "Location",
      "Method", "Interval", "TimeInterval", "Alignment">>

Rank(k) == CHOOSE i \in DOMAIN ParamOrder : ParamOrder[i] = k

C9_SequentialAggregation ==
    Done("measurement_list_all") =>
        /\ requests[1] = UrlOf("SiteList", None, None, None)
        /\ \A i \in 2..Len(requests) :
              requests[i] = UrlOf("MeasurementList", sites[i - 1], None, None)
        /\ IF Len(mtype_list) = Len(sites)
           THEN /\ Len(requests) = Len(sites) + 1
                /\ result.kind = "table"
                /\ result.table.rows = Flatten([i \in DOMAIN mtype_list |-> mtype_list[i].rows])
           ELSE /\ Len(requests) = Len(mtype_list) + 2
                /\ result.kind = "raise"

\* C10: for measurement 'WQ Sample', the result of get_data has exactly one
\* (DateTime, Parameter, Value) row for each parameter of each time point
\* that has parameters, and none for a time point without; this for every
\* sequence of time points, two with the same timestamp included.
C10_SamplePivot ==
    (/\ Done("get_data")
     /\ args.measurement = "WQ Sample"
     /\ ~resp.Error
     /\ resp.Measurement # <<>>
     /\ resp.Measurement[1].DataType = "WQSample"
     /\ ~HasGap(resp.Measurement[1].Data)) =>
        LET es1 == resp.Measurement[1].Data
            rows == IF result.kind = "table" THEN result.table.rows ELSE <<>>
        IN  /\ result.kind = "table"
            /\ Len(rows) = Cardinality(Carried(es1))
            /\ {<<rows[k].DateTime, rows[k].Parameter, rows[k].Value>> : k \in DOMAIN rows}
                  = {<<ToDatetime(es1[c.i].T), NameAt(es1, c),
                       AsciiIgnore(Truncate299(es1[c.i].Parameter[c.j].Value))>> :
                        c \in Carried(es1)}

====
